---- MODULE Spec2Model ----
(***************************************************************************)
(* Gas station simulator (src/gas_station.cpp): car threads share one     *)
(* waiting line (carLine) and one pool of pumps (openPumps), both          *)
(* MyQueue instances; main spawns the cars, clears the running flag,       *)
(* joins the cars and drains the pool.                                     *)
(*                                                                         *)
(* Granularity: one step per shared-memory access.  MyQueue::push and      *)
(* MyQueue::pop take m_mutex (one step to lock, one step to mutate and     *)
(* unlock); MyQueue::front and MyQueue::empty read m_queue WITHOUT the     *)
(* mutex, so a read that overlaps another thread's locked mutation is a    *)
(* data race: it may observe the queue before or after that mutation.      *)
(* Time is abstracted: every sleep_for is a scheduling point.  The run of   *)
(* a single car against the clock is modelled apart (TimedSpec).           *)
(***************************************************************************)
EXTENDS Naturals, Sequences, FiniteSets, TLC

\* Number of car threads; the program runs 10, the model a bounded number.
MAX_CARS == 3
\* Number of pumps, as in the program.
MAX_PUMPS == 2
\* Bound on the fill-ups of one run (the program is bounded by its 30 s).
MaxFills == 3

CarIds == 1..MAX_CARS
PumpIds == 1..MAX_PUMPS
NoThread == 0
NullPump == 0

VARIABLES
    running,     \* atomic<bool> running
    carLine,     \* carLine.m_queue : sequence of car ids
    openPumps,   \* openPumps.m_queue : sequence of pump handles
    lineMutex,   \* carLine.m_mutex : id of the car holding it, 0 when free
    pumpsMutex,  \* openPumps.m_mutex
    pc,          \* position of every car thread in Car::operator()
    myPump,      \* local GasPump* myPump of every car (0 = none / null)
    rmw,         \* value read by the pending ++m_count of GasPump::Inc
    carCount,    \* Car::m_count of the thread's Car object
    pumpCount,   \* GasPump::m_count
    mainPc,      \* position of main
    mainI,       \* loop index of main's spawn loop and join loop
    carLines,    \* number of "Car <id> filled up ..." lines on stdout
    pumpLines,   \* number of "Pump <id> filled up ..." lines on stdout
    deleted,     \* pumps destroyed by main's cleanup loop
    waiting,     \* history: the cars whose line.push completed and that have
                 \* not acquired a pump since, in the order of those pushes
    acquired,    \* history: number of pumps.pop() completed by every car
    served,      \* history: number of PumpGas() sleeps completed on every pump
    lateAcq,     \* history: pumps.pop() completed by every car after running = false
    solo         \* the timed run of one car with one pump (see "Timed run")

\* The variables of the station model (time abstracted).
stationVars == <<running, carLine, openPumps, lineMutex, pumpsMutex, pc, myPump, rmw,
                 carCount, pumpCount, mainPc, mainI, carLines, pumpLines, deleted,
                 waiting, acquired, served, lateAcq>>

vars == <<stationVars, solo>>


----------------------------------------------------------------------------
(* MyQueue<T> *)

\* Faulty variant: push at the head (a stack instead of a queue).
QPush_AtHead(q, item) == <<item>> \o q

\* m_queue.push(item), the body of MyQueue::push under the lock.
QPush(q, item) == Append(q, item)

\* Faulty variant: pop returns the head and leaves it in the queue.
QPopRest_NoRemove(q) == q

\* m_queue.pop(), the removal done by MyQueue::pop under the lock.
\* std::queue::pop on an empty queue is undefined; the queue stays empty here.
QPopRest(q) == IF q = <<>> THEN <<>> ELSE Tail(q)

\* The value(s) m_queue.front() can yield; on an empty queue the read is
\* undefined and may yield any value of the element type.
QFront(q, anyValue) == IF q = <<>> THEN anyValue ELSE {Head(q)}

\* m_queue.size() <= 0
QEmpty(q) == Len(q) = 0

\* carLine as it will be once the thread inside push/pop has finished.
LineAfterPending ==
    IF lineMutex = NoThread THEN carLine
    ELSE IF pc[lineMutex] = "leave_in" THEN QPopRest(carLine)
    ELSE QPush(carLine, lineMutex)

\* openPumps as it will be once the thread inside push/pop has finished.
PumpsAfterPending ==
    IF pumpsMutex = NoThread THEN openPumps
    ELSE IF pc[pumpsMutex] = "acq_in" THEN QPopRest(openPumps)
    ELSE QPush(openPumps, myPump[pumpsMutex])

\* MyQueue::front on carLine: no lock, so the read sees the queue before or
\* after a mutation that is in progress.
LineFrontReads ==
    QFront(carLine, 0..MAX_CARS) \cup QFront(LineAfterPending, 0..MAX_CARS)

\* MyQueue::empty on openPumps: no lock, same race.
PumpsEmptyReads == {QEmpty(openPumps), QEmpty(PumpsAfterPending)}

\* s without its first occurrence of x.
RECURSIVE RemoveFirst(_, _)
RemoveFirst(s, x) ==
    IF s = <<>> THEN <<>>
    ELSE IF Head(s) = x THEN Tail(s)
    ELSE <<Head(s)>> \o RemoveFirst(Tail(s), x)

----------------------------------------------------------------------------
(* Metrics *)

\* ~Metrics: prints one stats line only when m_count > 0.
\* n is the number of lines already printed for this name and id.
Dtor(n, count) == IF count > 0 THEN n + 1 ELSE n

\* Metrics::Inc, the write half of ++m_count (read is a separate step).
IncWrite(read) == read + 1

----------------------------------------------------------------------------
(* Model bound on the length of a run *)

RECURSIVE SumTo(_, _)
SumTo(f, n) == IF n = 0 THEN 0 ELSE f[n] + SumTo(f, n - 1)

\* Positions between the loop test and the car's own Inc(): an attempt under way.
AttemptPcs == {"front", "poll", "pwait", "acq", "acq_in", "leave", "leave_in",
               "pump_rd", "pump_wr", "inc"}

\* Fill-ups counted by the cars plus the attempts under way.
Started == SumTo(carCount, MAX_CARS) + Cardinality({c \in CarIds : pc[c] \in AttemptPcs})

----------------------------------------------------------------------------
StationInit ==
    /\ running = TRUE
    /\ carLine = <<>>
    /\ openPumps = [i \in 1..MAX_PUMPS |-> i]
    /\ lineMutex = NoThread
    /\ pumpsMutex = NoThread
    /\ pc = [c \in CarIds |-> "unborn"]
    /\ myPump = [c \in CarIds |-> NullPump]
    /\ rmw = [c \in CarIds |-> 0]
    /\ carCount = [c \in CarIds |-> 0]
    /\ pumpCount = [p \in PumpIds |-> 0]
    /\ mainPc = "spawn"
    /\ mainI = 0
    /\ carLines = [c \in CarIds |-> 0]
    /\ pumpLines = [p \in PumpIds |-> 0]
    /\ deleted = {}
    /\ waiting = <<>>
    /\ acquired = [c \in CarIds |-> 0]
    /\ served = [p \in PumpIds |-> 0]
    /\ lateAcq = [c \in CarIds |-> 0]

----------------------------------------------------------------------------
(* Timed run: one car, one pump, time in whole milliseconds.  With a single *)
(* car there is no contention: line.front() is the car's own id and the     *)
(* pump is back in the pool before the car tests the loop again, so the     *)
(* run is the car's sequence of sleeps against main's sleep.  Steps other   *)
(* than sleep_for take no time.                                             *)

\* static const int PUMP_TIME_MS: sleep of GasPump::PumpGas.
PUMP_TIME_MS == 30
\* static const int PROGRAM_TIME_S: main's sleep, in seconds.
PROGRAM_TIME_S == 30
\* sleep_for(milliseconds(5)) at the end of every iteration of the car's loop.
LoopSleepMs == 5
\* Longest run duration explored by the timed run, in ms.
MaxRunMs == 600

\* The timed run when main has spawned the car and starts a sleep of d ms.
SoloStart(d) ==
    [now |-> 0, pc |-> "loop", wake |-> 0, count |-> 0, running |-> TRUE, stopAt |-> d]

Init ==
    /\ StationInit
    /\ solo = SoloStart(PROGRAM_TIME_S * 1000)

\* The timed run for every run duration up to MaxRunMs; the station is idle.
TimedInit ==
    /\ StationInit
    /\ \E d \in 0..MaxRunMs : solo = SoloStart(d)

----------------------------------------------------------------------------
(* Car::operator() *)

\* line.push(GetId()) at thread start: lock carLine.m_mutex.
EnterLineLock(c) ==
    /\ pc[c] = "enter"
    /\ lineMutex = NoThread
    /\ lineMutex' = c
    /\ pc' = [pc EXCEPT ![c] = "enter_in"]
    /\ UNCHANGED <<running, carLine, openPumps, pumpsMutex, myPump, rmw, carCount,
                   pumpCount, mainPc, mainI, carLines, pumpLines, deleted, waiting,
                   acquired, served, lateAcq, solo>>

\* line.push(GetId()): append and unlock.
EnterLine(c) ==
    /\ pc[c] = "enter_in"
    /\ carLine' = QPush(carLine, c)
    /\ lineMutex' = NoThread
    /\ waiting' = Append(waiting, c)
    /\ pc' = [pc EXCEPT ![c] = "loop"]
    /\ UNCHANGED <<running, openPumps, pumpsMutex, myPump, rmw, carCount,
                   pumpCount, mainPc, mainI, carLines, pumpLines, deleted,
                   acquired, served, lateAcq, solo>>

\* Faulty variant: the flag is read once, before the loop, and found true.
CheckRunning_Cached(c) ==
    /\ pc[c] = "loop"
    /\ Started < MaxFills
    /\ pc' = [pc EXCEPT ![c] = "front"]
    /\ UNCHANGED <<running, carLine, openPumps, lineMutex, pumpsMutex, myPump, rmw,
                   carCount, pumpCount, mainPc, mainI, carLines, pumpLines, deleted,
                   waiting,
                   acquired, served, lateAcq, solo>>

\* while (running.load()): leave the loop, return and destroy the thread's Car
\* when the flag is false.  The guard on Started bounds the model: a car
\* whose next attempt would exceed MaxFills stays in its 5 ms sleep.
CheckRunning(c) ==
    /\ pc[c] = "loop"
    /\ IF running
         THEN /\ Started < MaxFills
              /\ pc' = [pc EXCEPT ![c] = "front"]
              /\ UNCHANGED carLines
         ELSE /\ pc' = [pc EXCEPT ![c] = "stopped"]
              /\ carLines' = [carLines EXCEPT ![c] = Dtor(@, carCount[c])]
    /\ UNCHANGED <<running, carLine, openPumps, lineMutex, pumpsMutex, myPump, rmw,
                   carCount, pumpCount, mainPc, mainI, pumpLines, deleted, waiting,
                   acquired, served, lateAcq, solo>>

\* Faulty variant: the car goes for a pump whatever the front of the line is.
CheckFront_NoCheck(c) ==
    /\ pc[c] = "front"
    /\ pc' = [pc EXCEPT ![c] = "poll"]
    /\ UNCHANGED <<running, carLine, openPumps, lineMutex, pumpsMutex, myPump, rmw,
                   carCount, pumpCount, mainPc, mainI, carLines, pumpLines, deleted,
                   waiting,
                   acquired, served, lateAcq, solo>>

\* if (line.front() == GetId()) ... else sleep 5 ms and loop.
CheckFront(c) ==
    /\ pc[c] = "front"
    /\ \E f \in LineFrontReads :
         pc' = [pc EXCEPT ![c] = IF f = c THEN "poll" ELSE "loop"]
    /\ UNCHANGED <<running, carLine, openPumps, lineMutex, pumpsMutex, myPump, rmw,
                   carCount, pumpCount, mainPc, mainI, carLines, pumpLines, deleted, waiting,
                   acquired, served, lateAcq, solo>>

\* Faulty variant: the car does not wait for a pump to be available and goes
\* on to pumps.pop() whatever empty() says.
PollPumps_NoWait(c) ==
    /\ pc[c] = "poll"
    /\ pc' = [pc EXCEPT ![c] = "acq"]
    /\ UNCHANGED <<running, carLine, openPumps, lineMutex, pumpsMutex, myPump, rmw,
                   carCount, pumpCount, mainPc, mainI, carLines, pumpLines, deleted, waiting,
                   acquired, served, lateAcq, solo>>

\* while (pumps.empty()) ...: evaluate the condition.
PollPumps(c) ==
    /\ pc[c] = "poll"
    /\ \E e \in PumpsEmptyReads :
         pc' = [pc EXCEPT ![c] = IF e THEN "pwait" ELSE "acq"]
    /\ UNCHANGED <<running, carLine, openPumps, lineMutex, pumpsMutex, myPump, rmw,
                   carCount, pumpCount, mainPc, mainI, carLines, pumpLines, deleted, waiting,
                   acquired, served, lateAcq, solo>>

\* ... sleep_for(1 ms), then evaluate pumps.empty() again.
PollSleep(c) ==
    /\ pc[c] = "pwait"
    /\ pc' = [pc EXCEPT ![c] = "poll"]
    /\ UNCHANGED <<running, carLine, openPumps, lineMutex, pumpsMutex, myPump, rmw,
                   carCount, pumpCount, mainPc, mainI, carLines, pumpLines, deleted, waiting,
                   acquired, served, lateAcq, solo>>

\* pumps.pop(): lock openPumps.m_mutex.
PopPumpLock(c) ==
    /\ pc[c] = "acq"
    /\ pumpsMutex = NoThread
    /\ pumpsMutex' = c
    /\ pc' = [pc EXCEPT ![c] = "acq_in"]
    /\ UNCHANGED <<running, carLine, openPumps, lineMutex, myPump, rmw, carCount,
                   pumpCount, mainPc, mainI, carLines, pumpLines, deleted, waiting,
                   acquired, served, lateAcq, solo>>

\* Faulty variant: pumps.pop() hands out the first pump of the pool but
\* leaves it in the pool, so the next car is given the same pump.
PopPump_NoRemove(c) ==
    /\ pc[c] = "acq_in"
    /\ \E p \in QFront(openPumps, 0..MAX_PUMPS) :
         /\ myPump' = [myPump EXCEPT ![c] = p]
         /\ IF p = NullPump
              THEN /\ pc' = [pc EXCEPT ![c] = "stopped"]
                   /\ carLines' = [carLines EXCEPT ![c] = Dtor(@, carCount[c])]
              ELSE /\ pc' = [pc EXCEPT ![c] = "leave"]
                   /\ UNCHANGED carLines
    /\ pumpsMutex' = NoThread
    /\ waiting' = RemoveFirst(waiting, c)
    /\ acquired' = [acquired EXCEPT ![c] = @ + 1]
    /\ lateAcq' = [lateAcq EXCEPT ![c] = IF running THEN @ ELSE @ + 1]
    /\ UNCHANGED <<running, carLine, openPumps, lineMutex, rmw, carCount, pumpCount,
                   mainPc, mainI, pumpLines, deleted, served, solo>>

\* GasPump* myPump = pumps.pop(); if (myPump == nullptr) return;
PopPump(c) ==
    /\ pc[c] = "acq_in"
    /\ \E p \in QFront(openPumps, 0..MAX_PUMPS) :
         /\ myPump' = [myPump EXCEPT ![c] = p]
         /\ IF p = NullPump
              THEN /\ pc' = [pc EXCEPT ![c] = "stopped"]
                   /\ carLines' = [carLines EXCEPT ![c] = Dtor(@, carCount[c])]
              ELSE /\ pc' = [pc EXCEPT ![c] = "leave"]
                   /\ UNCHANGED carLines
    /\ openPumps' = QPopRest(openPumps)
    /\ pumpsMutex' = NoThread
    /\ waiting' = RemoveFirst(waiting, c)
    /\ acquired' = [acquired EXCEPT ![c] = @ + 1]
    /\ lateAcq' = [lateAcq EXCEPT ![c] = IF running THEN @ ELSE @ + 1]
    /\ UNCHANGED <<running, carLine, lineMutex, rmw, carCount, pumpCount, mainPc,
                   mainI, pumpLines, deleted, served, solo>>

\* line.pop(): lock carLine.m_mutex.
LeaveLineLock(c) ==
    /\ pc[c] = "leave"
    /\ lineMutex = NoThread
    /\ lineMutex' = c
    /\ pc' = [pc EXCEPT ![c] = "leave_in"]
    /\ UNCHANGED <<running, carLine, openPumps, pumpsMutex, myPump, rmw, carCount,
                   pumpCount, mainPc, mainI, carLines, pumpLines, deleted, waiting,
                   acquired, served, lateAcq, solo>>

\* Faulty variant: the car forgets to remove itself from the line.
LeaveLine_NoPop(c) ==
    /\ pc[c] = "leave_in"
    /\ lineMutex' = NoThread
    /\ pc' = [pc EXCEPT ![c] = "pump_rd"]
    /\ UNCHANGED <<running, carLine, openPumps, pumpsMutex, myPump, rmw, carCount,
                   pumpCount, mainPc, mainI, carLines, pumpLines, deleted, waiting,
                   acquired, served, lateAcq, solo>>

\* line.pop(): remove the head and unlock (the returned id is discarded).
LeaveLine(c) ==
    /\ pc[c] = "leave_in"
    /\ carLine' = QPopRest(carLine)
    /\ lineMutex' = NoThread
    /\ pc' = [pc EXCEPT ![c] = "pump_rd"]
    /\ UNCHANGED <<running, openPumps, pumpsMutex, myPump, rmw, carCount, pumpCount,
                   mainPc, mainI, carLines, pumpLines, deleted, waiting,
                   acquired, served, lateAcq, solo>>

\* myPump->PumpGas(): sleep 30 ms, then read m_count for ++m_count.
PumpGasRead(c) ==
    /\ pc[c] = "pump_rd"
    /\ rmw' = [rmw EXCEPT ![c] = pumpCount[myPump[c]]]
    /\ pc' = [pc EXCEPT ![c] = "pump_wr"]
    /\ served' = [served EXCEPT ![myPump[c]] = @ + 1]
    /\ UNCHANGED <<running, carLine, openPumps, lineMutex, pumpsMutex, myPump,
                   carCount, pumpCount, mainPc, mainI, carLines, pumpLines, deleted, waiting,
                   acquired, lateAcq, solo>>

\* Faulty variant: PumpGas sleeps but does not count the fill-up.
PumpGasWrite_Lost(c) ==
    /\ pc[c] = "pump_wr"
    /\ rmw' = [rmw EXCEPT ![c] = 0]
    /\ pc' = [pc EXCEPT ![c] = "inc"]
    /\ UNCHANGED <<running, carLine, openPumps, lineMutex, pumpsMutex, myPump,
                   carCount, pumpCount, mainPc, mainI, carLines, pumpLines, deleted,
                   waiting,
                   acquired, served, lateAcq, solo>>

\* myPump->PumpGas(): write m_count back.
PumpGasWrite(c) ==
    /\ pc[c] = "pump_wr"
    /\ pumpCount' = [pumpCount EXCEPT ![myPump[c]] = IncWrite(rmw[c])]
    /\ rmw' = [rmw EXCEPT ![c] = 0]
    /\ pc' = [pc EXCEPT ![c] = "inc"]
    /\ UNCHANGED <<running, carLine, openPumps, lineMutex, pumpsMutex, myPump,
                   carCount, mainPc, mainI, carLines, pumpLines, deleted, waiting,
                   acquired, served, lateAcq, solo>>

\* Faulty variant: the car tests the running flag in the middle of its service
\* cycle and ends its thread there when the flag is false, with the pump
\* still in hand.
CarInc_QuitOnStop(c) ==
    /\ pc[c] = "inc"
    /\ IF running
         THEN /\ carCount' = [carCount EXCEPT ![c] = IncWrite(@)]
              /\ pc' = [pc EXCEPT ![c] = "ret"]
              /\ UNCHANGED carLines
         ELSE /\ pc' = [pc EXCEPT ![c] = "stopped"]
              /\ carLines' = [carLines EXCEPT ![c] = Dtor(@, carCount[c])]
              /\ UNCHANGED carCount
    /\ UNCHANGED <<running, carLine, openPumps, lineMutex, pumpsMutex, myPump, rmw,
                   pumpCount, mainPc, mainI, pumpLines, deleted, waiting,
                   acquired, served, lateAcq, solo>>

\* Inc(): the car's own counter, touched by this thread only.
CarInc(c) ==
    /\ pc[c] = "inc"
    /\ carCount' = [carCount EXCEPT ![c] = IncWrite(@)]
    /\ pc' = [pc EXCEPT ![c] = "ret"]
    /\ UNCHANGED <<running, carLine, openPumps, lineMutex, pumpsMutex, myPump, rmw,
                   pumpCount, mainPc, mainI, carLines, pumpLines, deleted, waiting,
                   acquired, served, lateAcq, solo>>

\* pumps.push(myPump): lock openPumps.m_mutex.
ReturnPumpLock(c) ==
    /\ pc[c] = "ret"
    /\ pumpsMutex = NoThread
    /\ pumpsMutex' = c
    /\ pc' = [pc EXCEPT ![c] = "ret_in"]
    /\ UNCHANGED <<running, carLine, openPumps, lineMutex, myPump, rmw, carCount,
                   pumpCount, mainPc, mainI, carLines, pumpLines, deleted, waiting,
                   acquired, served, lateAcq, solo>>

\* Faulty variant: the pump is not put back into the pool.
ReturnPump_Lost(c) ==
    /\ pc[c] = "ret_in"
    /\ pumpsMutex' = NoThread
    /\ myPump' = [myPump EXCEPT ![c] = NullPump]
    /\ pc' = [pc EXCEPT ![c] = "rejoin"]
    /\ UNCHANGED <<running, carLine, openPumps, lineMutex, rmw, carCount, pumpCount,
                   mainPc, mainI, carLines, pumpLines, deleted, waiting,
                   acquired, served, lateAcq, solo>>

\* Faulty variant: the car clears its handle before the push, so a null
\* handle goes into the pool.
ReturnPump_Null(c) ==
    /\ pc[c] = "ret_in"
    /\ openPumps' = QPush(openPumps, NullPump)
    /\ pumpsMutex' = NoThread
    /\ myPump' = [myPump EXCEPT ![c] = NullPump]
    /\ pc' = [pc EXCEPT ![c] = "rejoin"]
    /\ UNCHANGED <<running, carLine, lineMutex, rmw, carCount, pumpCount, mainPc,
                   mainI, carLines, pumpLines, deleted, waiting,
                   acquired, served, lateAcq, solo>>

\* pumps.push(myPump): append and unlock; the local handle is dead from here on.
ReturnPump(c) ==
    /\ pc[c] = "ret_in"
    /\ openPumps' = QPush(openPumps, myPump[c])
    /\ pumpsMutex' = NoThread
    /\ myPump' = [myPump EXCEPT ![c] = NullPump]
    /\ pc' = [pc EXCEPT ![c] = "rejoin"]
    /\ UNCHANGED <<running, carLine, lineMutex, rmw, carCount, pumpCount, mainPc,
                   mainI, carLines, pumpLines, deleted, waiting,
                   acquired, served, lateAcq, solo>>

\* line.push(GetId()) after the fill-up: lock carLine.m_mutex.
RejoinLock(c) ==
    /\ pc[c] = "rejoin"
    /\ lineMutex = NoThread
    /\ lineMutex' = c
    /\ pc' = [pc EXCEPT ![c] = "rejoin_in"]
    /\ UNCHANGED <<running, carLine, openPumps, pumpsMutex, myPump, rmw, carCount,
                   pumpCount, mainPc, mainI, carLines, pumpLines, deleted, waiting,
                   acquired, served, lateAcq, solo>>

\* Faulty variant: after its fill-up the car does not push its id back on
\* the line.
Rejoin_NoPush(c) ==
    /\ pc[c] = "rejoin_in"
    /\ lineMutex' = NoThread
    /\ pc' = [pc EXCEPT ![c] = "loop"]
    /\ UNCHANGED <<running, carLine, openPumps, pumpsMutex, myPump, rmw, carCount,
                   pumpCount, mainPc, mainI, carLines, pumpLines, deleted, waiting,
                   acquired, served, lateAcq, solo>>

\* line.push(GetId()): append, unlock, sleep 5 ms, back to the loop test.
Rejoin(c) ==
    /\ pc[c] = "rejoin_in"
    /\ carLine' = QPush(carLine, c)
    /\ lineMutex' = NoThread
    /\ waiting' = Append(waiting, c)
    /\ pc' = [pc EXCEPT ![c] = "loop"]
    /\ UNCHANGED <<running, openPumps, pumpsMutex, myPump, rmw, carCount,
                   pumpCount, mainPc, mainI, carLines, pumpLines, deleted,
                   acquired, served, lateAcq, solo>>

CarStep(c) ==
    \/ EnterLineLock(c)
    \/ EnterLine(c)
    \/ CheckRunning(c)
    \/ CheckFront(c)
    \/ PollPumps(c)
    \/ PollSleep(c)
    \/ PopPumpLock(c)
    \/ PopPump(c)
    \/ LeaveLineLock(c)
    \/ LeaveLine(c)
    \/ PumpGasRead(c)
    \/ PumpGasWrite(c)
    \/ CarInc(c)
    \/ ReturnPumpLock(c)
    \/ ReturnPump(c)
    \/ RejoinLock(c)
    \/ Rejoin(c)

----------------------------------------------------------------------------
(* main *)

\* cars.push_back(thread(Car(i+1), ...)): start the thread; the temporary
\* Car(i+1) is destroyed with m_count = 0.
Spawn ==
    /\ mainPc = "spawn"
    /\ pc' = [pc EXCEPT ![mainI + 1] = "enter"]
    /\ carLines' = [carLines EXCEPT ![mainI + 1] = Dtor(@, 0)]
    /\ mainI' = mainI + 1
    /\ mainPc' = IF mainI + 1 = MAX_CARS THEN "sleep" ELSE "spawn"
    /\ UNCHANGED <<running, carLine, openPumps, lineMutex, pumpsMutex, myPump, rmw,
                   carCount, pumpCount, pumpLines, deleted, waiting,
                   acquired, served, lateAcq, solo>>

\* sleep_for(PROGRAM_TIME_S); running = false;
StopThreads ==
    /\ mainPc = "sleep"
    /\ running' = FALSE
    /\ mainPc' = "join"
    /\ mainI' = 0
    /\ UNCHANGED <<carLine, openPumps, lineMutex, pumpsMutex, pc, myPump, rmw,
                   carCount, pumpCount, carLines, pumpLines, deleted, waiting,
                   acquired, served, lateAcq, solo>>

\* Faulty variant: the controller does not wait for the car thread to end
\* (as if the thread were detached instead of joined).
Join_NoWait ==
    /\ mainPc = "join"
    /\ mainI' = mainI + 1
    /\ mainPc' = IF mainI + 1 = MAX_CARS THEN "drain" ELSE "join"
    /\ UNCHANGED <<running, carLine, openPumps, lineMutex, pumpsMutex, pc, myPump,
                   rmw, carCount, pumpCount, carLines, pumpLines, deleted, waiting,
                   acquired, served, lateAcq, solo>>

\* for (auto& t : cars) t.join();
Join ==
    /\ mainPc = "join"
    /\ pc[mainI + 1] = "stopped"
    /\ mainI' = mainI + 1
    /\ mainPc' = IF mainI + 1 = MAX_CARS THEN "drain" ELSE "join"
    /\ UNCHANGED <<running, carLine, openPumps, lineMutex, pumpsMutex, pc, myPump,
                   rmw, carCount, pumpCount, carLines, pumpLines, deleted, waiting,
                   acquired, served, lateAcq, solo>>

\* while (!openPumps.empty()) { p = openPumps.pop(); delete p; }
Drain ==
    /\ mainPc = "drain"
    /\ pumpsMutex = NoThread
    /\ \E e \in PumpsEmptyReads :
         IF e
           THEN /\ mainPc' = "done"
                /\ UNCHANGED <<openPumps, pumpLines, deleted>>
           ELSE /\ \E p \in QFront(openPumps, 0..MAX_PUMPS) :
                     /\ deleted' = deleted \cup {p}
                     /\ pumpLines' = IF p \in PumpIds
                                       THEN [pumpLines EXCEPT ![p] = Dtor(@, pumpCount[p])]
                                       ELSE pumpLines
                /\ openPumps' = QPopRest(openPumps)
                /\ UNCHANGED mainPc
    /\ UNCHANGED <<running, carLine, lineMutex, pumpsMutex, pc, myPump, rmw,
                   carCount, pumpCount, mainI, carLines, waiting,
                   acquired, served, lateAcq, solo>>

MainStep ==
    \/ Spawn
    \/ StopThreads
    \/ Join
    \/ Drain

----------------------------------------------------------------------------
Next ==
    \/ \E c \in CarIds : CarStep(c)
    \/ MainStep

Spec == Init /\ [][Next]_vars

\* Every thread that can take a step eventually takes one.
FairSpec ==
    /\ Spec
    /\ \A c \in CarIds : WF_vars(CarStep(c))
    /\ WF_vars(MainStep)

\* Fair scheduling of the cars while the station is open: every car thread
\* that can take a step eventually takes one, and a car whose loop test can
\* succeed again and again eventually gets through it (in the program the
\* test is always possible; in the model the bound MaxFills disables it from
\* time to time).  Nothing is assumed of main: it may sleep forever.
OpenFairSpec ==
    /\ Spec
    /\ \A c \in CarIds : WF_vars(CarStep(c)) /\ SF_vars(CheckRunning(c))

----------------------------------------------------------------------------
(* Timed run of one car with one pump *)

\* while (running.load()), flag true: front() is the car, the pump is free;
\* pop both and sleep PUMP_TIME_MS inside PumpGas().
SoloStartService ==
    /\ solo.pc = "loop"
    /\ solo.running
    /\ solo' = [solo EXCEPT !.pc = "pumping", !.wake = solo.now + PUMP_TIME_MS]
    /\ UNCHANGED stationVars

\* PumpGas() wakes up: Inc() of the pump, Inc() of the car, both pushes, then
\* the sleep_for(5 ms) that ends the iteration.
SoloFinishService ==
    /\ solo.pc = "pumping"
    /\ solo.now = solo.wake
    /\ solo' = [solo EXCEPT !.pc = "sleeping", !.count = IncWrite(@),
                            !.wake = solo.now + LoopSleepMs]
    /\ UNCHANGED stationVars

\* The sleep at the end of the iteration is over: back to the loop test.
SoloWake ==
    /\ solo.pc = "sleeping"
    /\ solo.now = solo.wake
    /\ solo' = [solo EXCEPT !.pc = "loop"]
    /\ UNCHANGED stationVars

\* while (running.load()), flag false: the thread ends.
SoloExit ==
    /\ solo.pc = "loop"
    /\ ~solo.running
    /\ solo' = [solo EXCEPT !.pc = "stopped"]
    /\ UNCHANGED stationVars

\* main's sleep_for(PROGRAM_TIME_S) is over: running = false.
SoloStopThreads ==
    /\ solo.running
    /\ solo.now = solo.stopAt
    /\ solo' = [solo EXCEPT !.running = FALSE]
    /\ UNCHANGED stationVars

\* Time passes, up to the earliest moment a sleep ends; it does not pass
\* while a thread has a step to take at the current moment.
SoloAdvance ==
    /\ solo.pc \in {"pumping", "sleeping"}
    /\ solo.wake > solo.now
    /\ solo.running => solo.stopAt > solo.now
    /\ solo' = [solo EXCEPT !.now = IF solo.running /\ solo.stopAt < solo.wake
                                      THEN solo.stopAt ELSE solo.wake]
    /\ UNCHANGED stationVars

TimedNext ==
    \/ SoloStartService
    \/ SoloFinishService
    \/ SoloWake
    \/ SoloExit
    \/ SoloStopThreads
    \/ SoloAdvance

TimedSpec == TimedInit /\ [][TimedNext]_vars

----------------------------------------------------------------------------
(* Properties *)

\* The part of Car::operator() between pumps.pop() and the end of the
\* line.push that follows the service: one service cycle.
ServicePcs == {"leave", "leave_in", "pump_rd", "pump_wr", "inc", "ret", "ret_in",
               "rejoin", "rejoin_in"}

\* Car c is inside a service cycle that began (pumps.pop() returned) while
\* running was true, and running is false now.
ServiceAcrossStop(c) ==
    /\ ~running
    /\ pc[c] \in ServicePcs
    /\ lateAcq[c] = 0

\* The cars that are inside Metrics::Inc() of pump p: between the read and
\* the write of ++m_count.
InPumpInc(p) == {c \in CarIds : myPump[c] = p /\ pc[c] = "pump_wr"}

\* The cars that are inside PumpGas() of pump p (sleep, then Inc()).
InPumpGas(p) == {c \in CarIds : myPump[c] = p /\ pc[c] \in {"pump_rd", "pump_wr"}}

\* 1 if car c has acquired a pump for a service and has not yet executed its
\* own Inc() for it, else 0.
CarIncDue(c) ==
    IF pc[c] \in {"leave", "leave_in", "pump_rd", "pump_wr", "inc"} THEN 1 ELSE 0

\* Positions of Car::operator() in the poll 'while (pumps.empty())' and in
\* the pumps.pop() that follows it.
PollPcs == {"poll", "pwait", "acq", "acq_in"}

\* The cars that are polling the pool or popping it.
Acquiring == {c \in CarIds : pc[c] \in PollPcs}

\* Number of places of q that hold x.
Occurrences(q, x) == Cardinality({i \in 1..Len(q) : q[i] = x})

\* The cars that hold pump p: pumps.pop() returned p and pumps.push(p) has
\* not completed.
Holders(p) == {c \in CarIds : myPump[c] = p}

\* C1 (mutual exclusion): no pump handle is held by two cars at once, and a
\* pump held by a car is not in the pool, so no other car can obtain it
\* between the holder's pumps.pop() and its pumps.push().
C1_MutualExclusion ==
    \A p \in PumpIds :
        /\ Cardinality(Holders(p)) <= 1
        /\ Holders(p) # {} => Occurrences(openPumps, p) = 0

\* C1 witness: two cars hold the two pumps while a third car polls the
\* empty pool.
C1_Witness ==
    \E a, b, w \in CarIds :
        /\ a # b
        /\ myPump[a] \in PumpIds
        /\ myPump[b] \in PumpIds
        /\ pc[w] = "pwait"
        /\ openPumps = <<>>

\* C2 (conservation): until main starts its cleanup loop, the pumps in the
\* pool plus the pumps held by cars are the MAX_PUMPS pumps, each exactly once.
C2_Conservation ==
    mainPc \notin {"drain", "done"} =>
        /\ Len(openPumps) + Cardinality({c \in CarIds : myPump[c] # NullPump}) = MAX_PUMPS
        /\ \A p \in PumpIds : Occurrences(openPumps, p) + Cardinality(Holders(p)) = 1

\* C2 witness: one car holds a pump while another car is inside
\* pumps.push() returning the other one, after the pool was reordered.
C2_Witness ==
    \E a, b \in CarIds :
        /\ a # b
        /\ myPump[a] \in PumpIds
        /\ pc[a] = "pump_wr"
        /\ pc[b] = "ret_in"
        /\ pumpCount[myPump[b]] > 0
        /\ openPumps = <<>>

\* C3 (FIFO fairness): every pump acquisition (a completed pumps.pop()) is
\* made by the car whose line.push completed earliest among the cars that
\* are waiting, so cars acquire pumps in the order in which they joined.
C3_FifoFairness ==
    [][\A c \in CarIds :
          (pc[c] = "acq_in" /\ pc'[c] # "acq_in") =>
              (waiting # <<>> /\ Head(waiting) = c)]_vars

\* C3 witness: a car that joined the line a second time has acquired a pump
\* again, ahead of a car that joined after it and is now first to be served.
C3_Witness ==
    \E a, b \in CarIds :
        /\ a # b
        /\ pc[a] = "leave"
        /\ carCount[a] > 0
        /\ Len(carLine) >= 2
        /\ carLine[1] = a
        /\ carLine[2] = b
        /\ waiting # <<>>
        /\ Head(waiting) = b

\* C4 (atomic queue operations): no front() on the line and no empty() on
\* the pool is executed while another thread holds that queue's mutex, i.e.
\* is inside push() or pop() on it.
C4_QueueOpsAtomic ==
    [][\A c \in CarIds :
          /\ (pc[c] = "front" /\ pc'[c] # "front") => lineMutex = NoThread
          /\ (pc[c] = "poll" /\ pc'[c] # "poll") => pumpsMutex = NoThread]_vars

\* C5 (no duplication): the line holds every car id at most once, and a car
\* that has left the line for its fill-up is not in the line until it has
\* finished and pushes itself back.
C5_NoDuplication ==
    \A c \in CarIds :
        /\ Occurrences(carLine, c) <= 1
        /\ pc[c] \in {"pump_rd", "pump_wr", "inc", "ret", "ret_in", "rejoin", "rejoin_in"}
              => Occurrences(carLine, c) = 0

\* C5 witness: every car is in the line and one of them is there again after
\* a fill-up.
C5_Witness ==
    /\ Len(carLine) = MAX_CARS
    /\ \E c \in CarIds : carCount[c] > 0 /\ carLine[MAX_CARS] = c

\* C6 (stop check on every polling iteration): a car evaluates the condition
\* of a polling wait (line.front() == id, pumps.empty()) only after reading
\* the running flag in the same iteration: it comes to line.front() from the
\* loop test, and to pumps.empty() from the line.front() that followed it.
C6_StopCheckEveryIteration ==
    [][\A c \in CarIds :
          /\ (pc'[c] = "front" /\ pc[c] # "front") => pc[c] = "loop"
          /\ (pc'[c] = "poll" /\ pc[c] # "poll") => pc[c] = "front"]_vars

C8_ReportComplete ==
    mainPc = "done" =>
        /\ \A c \in CarIds : carLines[c] = 1
        /\ \A p \in PumpIds : pumpLines[p] = 1

\* C9 (conservation of work): the pumps' counters and the cars' counters
\* differ only by the fill-ups whose car has not yet counted them, so the
\* two sums are equal once all cars have stopped.
C9_WorkConserved ==
    /\ SumTo(pumpCount, MAX_PUMPS)
         = SumTo(carCount, MAX_CARS) + Cardinality({c \in CarIds : pc[c] = "inc"})
    /\ (\A c \in CarIds : pc[c] = "stopped")
         => SumTo(pumpCount, MAX_PUMPS) = SumTo(carCount, MAX_CARS)

\* C9 witness: all cars have stopped after MaxFills fill-ups on both pumps.
C9_Witness ==
    /\ \A c \in CarIds : pc[c] = "stopped"
    /\ SumTo(carCount, MAX_CARS) = MaxFills
    /\ \A p \in PumpIds : pumpCount[p] > 0

\* C10 (leave the line after acquiring): the front of the line changes only
\* when the car at the front removes itself by line.pop(), and it does so
\* holding a pump; until then no other car becomes the front.
C10_LeaveAfterAcquire ==
    [][\A c \in CarIds :
          (/\ carLine # <<>>
           /\ Head(carLine) = c
           /\ (carLine' = <<>> \/ Head(carLine') # c))
          => (pc[c] = "leave_in" /\ pc'[c] # "leave_in" /\ myPump[c] \in PumpIds)]_vars

\* C10 witness: the car at the front is inside line.pop() with its pump while
\* the car behind it is checking the front of the line.
C10_Witness ==
    \E c, d \in CarIds :
        /\ pc[c] = "leave_in"
        /\ myPump[c] \in PumpIds
        /\ Len(carLine) >= 2
        /\ carLine[1] = c
        /\ carLine[2] = d
        /\ pc[d] = "front"

\* C11 (no leak at teardown): a stopped car holds no pump; once the joins are
\* over (main is draining or done) every car has stopped and every pump is
\* either in the pool exactly once or destroyed, never both and never held by
\* a car, so no pump is destroyed twice or touched after its destruction;
\* nothing is destroyed before the joins are over, and when main is done all
\* MAX_PUMPS pumps are destroyed.
C11_NoLeakAtTeardown ==
    /\ \A c \in CarIds : pc[c] = "stopped" => myPump[c] = NullPump
    /\ \A c \in CarIds : myPump[c] \notin deleted
    /\ deleted \subseteq PumpIds
    /\ deleted # {} => mainPc \in {"drain", "done"}
    /\ mainPc \in {"drain", "done"} =>
          /\ \A c \in CarIds : pc[c] = "stopped"
          /\ \A p \in PumpIds :
                Occurrences(openPumps, p) + (IF p \in deleted THEN 1 ELSE 0) = 1
          /\ Len(openPumps) + Cardinality(deleted) = MAX_PUMPS
    /\ mainPc = "done" => (deleted = PumpIds /\ openPumps = <<>>)

\* C11 witness: teardown is half way through after a run in which cars were
\* served: one pump is destroyed, the other is still in the pool.
C11_Witness ==
    /\ mainPc = "drain"
    /\ Cardinality(deleted) = 1
    /\ Len(openPumps) = MAX_PUMPS - 1
    /\ SumTo(carCount, MAX_CARS) > 0

\* C12 (queue preconditions): pumps.pop() is never executed on an empty pool,
\* neither by a car nor by main's drain loop (whose empty() test cannot race
\* with a push or pop); line.pop() is never executed on an empty line and
\* always removes the identity of the car that calls it; line.front() is
\* never evaluated on a line that is empty, or that the pop in progress
\* leaves empty.
C12_QueuePreconditions ==
    /\ \A c \in CarIds :
          /\ pc[c] = "acq_in" => ~QEmpty(openPumps)
          /\ pc[c] = "leave_in" => (~QEmpty(carLine) /\ Head(carLine) = c)
          /\ pc[c] = "front" => (~QEmpty(carLine) /\ ~QEmpty(LineAfterPending))
    /\ mainPc = "drain" => PumpsEmptyReads = {QEmpty(openPumps)}

\* C12 witness: a car is inside line.pop() as the only member of the line,
\* having taken the last pump of the pool: both queues are one pop from
\* (or already) empty.
C12_Witness ==
    \E c \in CarIds :
        /\ pc[c] = "leave_in"
        /\ carLine = <<c>>
        /\ openPumps = <<>>

\* C13 (cooperative cancellation): a car stops only from the loop test, with
\* every service cycle it began completed: as many increments of its own
\* counter as pumps it acquired, no pump in hand and its identity back in the
\* line. In particular a car whose service cycle began before running was
\* cleared does not stop from where it is: each of its next steps is the next
\* step of the cycle (pump counter incremented, car counter incremented, pump
\* pushed on the pool, identity pushed on the line), and only then it is back
\* at the loop test.
C13_CooperativeCancellation ==
    [][\A c \in CarIds :
          /\ (pc'[c] = "stopped" /\ pc[c] # "stopped") =>
                /\ pc[c] = "loop"
                /\ ~running
                /\ myPump[c] = NullPump
                /\ carCount[c] = acquired[c]
                /\ Occurrences(carLine, c) = 1
          /\ (ServiceAcrossStop(c) /\ pc'[c] # pc[c]) =>
                /\ pc'[c] \in ServicePcs \cup {"loop"}
                /\ (pc[c] = "pump_wr" =>
                       pumpCount'[myPump[c]] = pumpCount[myPump[c]] + 1)
                /\ (pc[c] = "inc" => carCount'[c] = carCount[c] + 1)
                /\ (pc[c] = "ret_in" =>
                       Occurrences(openPumps', myPump[c]) = 1)
                /\ (pc'[c] = "loop" <=> pc[c] = "rejoin_in")
                /\ (pc'[c] = "loop" =>
                       (Occurrences(carLine', c) = 1 /\ carCount'[c] = acquired'[c]))]_vars

\* C13 witness: running is already false, main is waiting in join, and a car
\* whose service began before the flag changed is completing it: it has
\* incremented both counters, returned the pump and is pushing its identity
\* back on the line.
C13_Witness ==
    \E c \in CarIds :
        /\ ServiceAcrossStop(c)
        /\ mainPc = "join"
        /\ pc[c] = "rejoin_in"
        /\ carCount[c] = acquired[c]
        /\ carCount[c] > 0

\* C14 (exact counters without locks): at most one car at a time is inside
\* PumpGas(), and so inside the unsynchronized ++m_count, of any one pump; a
\* pump's counter equals the number of services completed on it, less the one
\* whose increment is in progress; a car's counter equals the number of
\* service cycles it began, less the one whose Inc() is still due.
C14_ExactCounters ==
    /\ \A p \in PumpIds :
          /\ Cardinality(InPumpGas(p)) <= 1
          /\ pumpCount[p] + Cardinality(InPumpInc(p)) = served[p]
    /\ \A c \in CarIds :
          /\ carCount[c] + CarIncDue(c) = acquired[c]
          /\ rmw[c] # 0 => pc[c] = "pump_wr"
          /\ pc[c] = "pump_wr" => rmw[c] = pumpCount[myPump[c]]

\* C14 witness: two cars are inside the increments of the two pumps at the
\* same time, one of them on a pump that has already been used once.
C14_Witness ==
    \E c, d \in CarIds :
        /\ pc[c] = "pump_wr"
        /\ pc[d] = "pump_wr"
        /\ myPump[c] # myPump[d]
        /\ pumpCount[myPump[c]] = 1
        /\ served[myPump[c]] = 2

\* C15 (single-car throughput): when the car of the timed run (one car, one
\* pump) has stopped, its count is within one unit of floor(D / S), D the run
\* duration and S the service duration PUMP_TIME_MS.
C15_SingleCarThroughput ==
    solo.pc = "stopped" =>
        /\ solo.count + 1 >= solo.stopAt \div PUMP_TIME_MS
        /\ solo.count <= solo.stopAt \div PUMP_TIME_MS + 1

\* C16 (serialized acquisition): at most one car at a time is in the pump
\* poll or in the pumps.pop() after it, and that car is the front of the line
\* (of the line as it is, or as the line.pop() in progress leaves it); and
\* from the moment its empty() returned false until its own pop() returns,
\* no step of another thread makes the pool shorter, so its pop() finds a
\* pump.
C16_SerializedAcquisition ==
    /\ [](/\ Cardinality(Acquiring) <= 1
          /\ \A c \in Acquiring :
                /\ c \in QFront(carLine, {}) \cup QFront(LineAfterPending, {})
                /\ pc[c] = "acq" => (~QEmpty(openPumps) \/ ~QEmpty(PumpsAfterPending))
                /\ pc[c] = "acq_in" => ~QEmpty(openPumps))
    /\ [][\A c \in CarIds :
             (pc[c] \in {"acq", "acq_in"} /\ pc'[c] \in {"acq", "acq_in"}) =>
                 Len(openPumps') >= Len(openPumps)]_vars

\* C16 witness: a car has seen the pool non-empty and is about to pop the
\* only pump left, while another car is returning its pump and a third one
\* is evaluating line.front().
C16_Witness ==
    \E c, d, e \in CarIds :
        /\ pc[c] = "acq"
        /\ Len(openPumps) = 1
        /\ pc[d] = "ret_in"
        /\ pc[e] = "front"

\* C17 (stopped cars stay in the line): a car that has stopped is in the line
\* exactly once, and once every car has stopped the line holds the MAX_CARS
\* identities, each once.
C17_StoppedCarsInLine ==
    /\ \A c \in CarIds : pc[c] = "stopped" => Occurrences(carLine, c) = 1
    /\ (\A c \in CarIds : pc[c] = "stopped") =>
          /\ Len(carLine) = MAX_CARS
          /\ \A c \in CarIds : Occurrences(carLine, c) = 1

\* C17 witness: every car has stopped after a run that used the whole
\* budget of fill-ups, so cars left the line and came back before stopping;
\* the line is not in the order of the car ids.
C17_Witness ==
    /\ \A c \in CarIds : pc[c] = "stopped"
    /\ SumTo(carCount, MAX_CARS) = MaxFills
    /\ Len(carLine) = MAX_CARS
    /\ carLine # [i \in 1..MAX_CARS |-> i]

\* C18 (the internal-fault branch is unreachable): the pool never holds a
\* null handle, and every pumps.pop() of a car returns a pump: the car goes
\* on to line.pop(), never to the 'NULL PTR FOUND' return that ends its
\* thread with its id still at the front of the line.
C18_NullBranchUnreachable ==
    /\ [](\A i \in 1..Len(openPumps) : openPumps[i] \in PumpIds)
    /\ [][\A c \in CarIds :
             (pc[c] = "acq_in" /\ pc'[c] # "acq_in") =>
                 /\ myPump'[c] \in PumpIds
                 /\ pc'[c] = "leave"]_vars

\* C18 witness: a car has just popped a pump that had been used and pushed
\* back on the pool before, and the null test let it through to line.pop().
C18_Witness ==
    \E c \in CarIds :
        /\ pc[c] = "leave"
        /\ myPump[c] \in PumpIds
        /\ pumpCount[myPump[c]] > 0
        /\ carCount[c] > 0

\* C19 (bounded work after stop): a car completes at most one pumps.pop()
\* after running was set to false; running never becomes true again, and a
\* car goes from the loop test into an attempt only on a read of true, so an
\* acquisition made after the flag changed belongs to an attempt whose read
\* of the flag came before the change; after that attempt the car's next
\* loop test ends its thread.
C19_BoundedWorkAfterStop ==
    /\ [](\A c \in CarIds : lateAcq[c] <= 1)
    /\ [][/\ ~running => ~running'
          /\ \A c \in CarIds :
                /\ (pc[c] = "loop" /\ pc'[c] = "front") => running
                /\ (pc[c] = "loop" /\ ~running /\ pc'[c] # pc[c]) => pc'[c] = "stopped"
                /\ lateAcq'[c] > lateAcq[c] =>
                      (~running /\ pc[c] = "acq_in" /\ lateAcq[c] = 0)]_vars

\* C19 witness: a car that acquired a pump after running was set to false
\* has completed that service and stopped, while another car stopped without
\* any acquisition after the flag changed.
C19_Witness ==
    \E c, d \in CarIds :
        /\ pc[c] = "stopped"
        /\ lateAcq[c] = 1
        /\ carCount[c] = acquired[c]
        /\ pc[d] = "stopped"
        /\ lateAcq[d] = 0

\* C20 (no starvation or deadlock while open): under fair scheduling of the
\* cars, a car that is waiting in the line while running is true eventually
\* acquires a pump, unless running becomes false or the model's budget of
\* fill-ups is used up first; and while running is true and the budget is
\* not used up, some car that has entered the station can take a step.
C20_NoStarvation ==
    /\ \A c \in CarIds :
          (running /\ Occurrences(waiting, c) > 0)
              ~> (\/ Occurrences(waiting, c) = 0
                  \/ ~running
                  \/ SumTo(carCount, MAX_CARS) >= MaxFills)
    /\ []((/\ running
           /\ SumTo(carCount, MAX_CARS) < MaxFills
           /\ \E c \in CarIds : pc[c] # "unborn")
              => \E c \in CarIds : ENABLED CarStep(c))

\* C20 witness: running is true, both pumps are taken and the car at the
\* head of the line sleeps in the poll of an empty pool; the budget is not
\* used up.
C20_Witness ==
    \E c \in CarIds :
        /\ running
        /\ pc[c] = "pwait"
        /\ openPumps = <<>>
        /\ waiting = <<c>>
        /\ SumTo(carCount, MAX_CARS) < MaxFills

====
